---- MODULE Spec2Model ----
(***************************************************************************)
(* Model of generate_savvy_pdf (src/app.py): one call of the report        *)
(* pipeline, from the opening of the uploaded workbook to the returned     *)
(* (document, error) pair.                                                 *)
(*                                                                         *)
(* Text is a sequence of one-character strings, so that substring tests,   *)
(* replacement, trimming and slicing are computed and not assumed.         *)
(* Percentages and dollar amounts of the allocation table are integers in  *)
(* thousandths (of a percent, of a dollar); the other amounts are whole    *)
(* dollars.  A cell that may be null is a record [na, v].  Text that only  *)
(* passes through to the page (the client name, the security names, the    *)
(* amounts as printed) is left out, and pd.read_excel of a sheet that was  *)
(* found returns its table.                                                *)
(***************************************************************************)
EXTENDS Integers, Sequences, FiniteSets, TLC

VARIABLES
    pc,            \* position inside generate_savvy_pdf
    input,         \* the arguments of the call and what the libraries do on them
    xlsx,          \* pd.ExcelFile(excel_file): the sequence of sheets
    k,             \* index of the required sheet the lookup loop is at
    dfs,           \* logical sheet name -> table, as far as located
    target_model,
    aa,
    trades,
    buys,
    sells,
    cg,
    total_val,
    logo_img,
    doc,           \* what has been drawn into the buffer
    result         \* the returned pair

vars == <<pc, input, xlsx, k, dfs, target_model, aa, trades, buys, sells,
          cg, total_val, logo_img, doc, result>>

----------------------------------------------------------------------------
(* Bounds of the checked input families.                                   *)

MaxAllocRows == 3
MaxTradeRows == 3
MaxModelRows == 3
MaxAcctRows == 2

----------------------------------------------------------------------------
(* Text.                                                                   *)

UpperAlpha == <<"A", "B", "C", "D", "E", "F", "G", "H", "I", "J", "K", "L", "M", "N", "O", "P", "Q", "R", "S", "T", "U", "V", "W", "X", "Y", "Z">>
LowerAlpha == <<"a", "b", "c", "d", "e", "f", "g", "h", "i", "j", "k", "l", "m", "n", "o", "p", "q", "r", "s", "t", "u", "v", "w", "x", "y", "z">>

LowerChar(c) ==
    IF \E i \in 1..Len(UpperAlpha) : UpperAlpha[i] = c
    THEN LowerAlpha[CHOOSE i \in 1..Len(UpperAlpha) : UpperAlpha[i] = c]
    ELSE c

\* str.lower()
Lower(s) == [i \in 1..Len(s) |-> LowerChar(s[i])]

\* sub in s
Contains(s, sub) ==
    \E i \in 1..(Len(s) - Len(sub) + 1) : SubSeq(s, i, i + Len(sub) - 1) = sub

\* Series.str.contains(pat, case=False) on a pattern without regex operators
ContainsNoCase(s, pat) == Contains(Lower(s), Lower(pat))

\* str.replace(old, new): every occurrence, left to right, not overlapping
RECURSIVE Replace(_, _, _)
Replace(s, old, new) ==
    IF Len(s) < Len(old) \/ Len(old) = 0 THEN s
    ELSE IF SubSeq(s, 1, Len(old)) = old
         THEN new \o Replace(SubSeq(s, Len(old) + 1, Len(s)), old, new)
         ELSE <<s[1]>> \o Replace(Tail(s), old, new)

Whitespace == {" "}

RECURSIVE LStrip(_)
LStrip(s) == IF Len(s) > 0 /\ s[1] \in Whitespace THEN LStrip(Tail(s)) ELSE s

RECURSIVE RStrip(_)
RStrip(s) ==
    IF Len(s) > 0 /\ s[Len(s)] \in Whitespace
    THEN RStrip(SubSeq(s, 1, Len(s) - 1)) ELSE s

\* str.strip()
Strip(s) == RStrip(LStrip(s))

\* str.split(sep)[0]: the text before the first separator
RECURSIVE SplitFirst(_, _)
SplitFirst(s, sep) ==
    IF Len(s) = 0 \/ s[1] = sep THEN <<>>
    ELSE <<s[1]>> \o SplitFirst(Tail(s), sep)

\* s[-n:]
LastChars(s, n) == IF Len(s) <= n THEN s ELSE SubSeq(s, Len(s) - n + 1, Len(s))

DigitChars == <<"0", "1", "2", "3", "4", "5", "6", "7", "8", "9">>

\* str(n) of an integer n >= 0
RECURSIVE Digits(_)
Digits(n) ==
    IF n < 10 THEN <<DigitChars[n + 1]>>
    ELSE Digits(n \div 10) \o <<DigitChars[(n % 10) + 1]>>

Abs(x) == IF x < 0 THEN -x ELSE x

Min(a, b) == IF a <= b THEN a ELSE b

----------------------------------------------------------------------------
(* Cells, None and exceptions.                                             *)

Cell(v) == [na |-> FALSE, v |-> v]
NaNum == [na |-> TRUE, v |-> 0]
NaText == [na |-> TRUE, v |-> <<>>]

None == [none |-> TRUE, v |-> <<>>]
Some(v) == [none |-> FALSE, v |-> v]

\* A Python exception: its class and the arguments it was constructed with.
Exc(type, args) == [type |-> type, args |-> args]

\* str(e): empty for an exception constructed without arguments, the repr of
\* the key for a KeyError, the argument itself otherwise.
StrOfException(e) ==
    IF Len(e.args) = 0 THEN <<>>
    ELSE IF e.type = "KeyError" THEN <<"'">> \o <<e.args[1]>> \o <<"'">>
    ELSE <<e.args[1]>>

\* truthiness of a returned error, as the caller tests it with `if error:`
Truthy(err) == ~err.none /\ Len(err.v) > 0

----------------------------------------------------------------------------
(* Configuration and the required sheets.                                  *)

GREEN == "#2e7d32"
RED == "#c62828"
DefaultColor == "default"

ModelTolerance == <<"M", "o", "d", "e", "l", " ", "T", "o", "l", "e", "r", "a", "n", "c", "e">>
HoldingAndTradeDetails == <<"H", "o", "l", "d", "i", "n", "g", " ", "a", "n", "d", " ", "T", "r", "a", "d", "e", " ", "D", "e", "t", "a", "i", "l", "s">>
GainLossDetails == <<"G", "a", "i", "n", " ", "L", "o", "s", "s", " ", "D", "e", "t", "a", "i", "l", "s">>
AccountAndCashDetails == <<"A", "c", "c", "o", "u", "n", "t", " ", "a", "n", "d", " ", "C", "a", "s", "h", " ", "D", "e", "t", "a", "i", "l", "s">>

\* dict order: key (a model string) and the substring looked for
required_sheets ==
    << [key |-> "Model Tolerance", sheet_name |-> ModelTolerance],
       [key |-> "Holding and Trade Details", sheet_name |-> HoldingAndTradeDetails],
       [key |-> "Gain Loss Details", sheet_name |-> GainLossDetails],
       [key |-> "Account and Cash Details", sheet_name |-> AccountAndCashDetails] >>

DefaultModelName == <<"S", "a", "v", "v", "y", " ", "S", "t", "r", "a", "t", "e", "g", "i", "c", " ", "M", "o", "d", "e", "l">>
Unassigned == <<"u", "n", "a", "s", "s", "i", "g", "n", "e", "d">>
CashEquivalents == <<"C", "a", "s", "h", " ", "E", "q", "u", "i", "v", "a", "l", "e", "n", "t", "s">>
CashMarker == <<"C", "a", "s", "h">>
CustodialMarker == <<"C", "U", "S", "T", "O", "D", "I", "A", "L", "_", "C", "A", "S", "H">>

ClassPrefixes ==
    << <<"S", "a", "v", "v", "y", " ", "T", "o", "t", "a", "l", " ", "P", "o", "r", "t", "f", "o", "l", "i", "o", "s", " ", "-", " ">>,
       <<"S", "a", "v", "v", "y", " ", "U", "S", " ", "E", "q", "u", "i", "t", "y", " ", "-", " ">>,
       <<"S", "a", "v", "v", "y", " ", "S", "t", "r", "a", "t", "e", "g", "i", "c", " ", "9", "0", "/", "1", "0", " ">>,
       <<"S", "T", "P", " ", "-", " ", "M", "o", "d", "e", "r", "a", "t", "e", " ", "A", "g", "g", "r", "e", "s", "s", "i", "v", "e", " ", "-", " ">> >>

TopN == 5
AcctDigits == 4

----------------------------------------------------------------------------
(* Tables.  A table is [cols: the column names present, rows: a sequence   *)
(* of records].                                                            *)

\* the first of `names` that is no column of df, "" when all are present:
\* df[name] raises KeyError(name) for it
FirstMissing(df, names) ==
    LET miss == {i \in 1..Len(names) : names[i] \notin df.cols}
    IN IF miss = {} THEN ""
       ELSE names[CHOOSE i \in miss : \A j \in miss : i <= j]

\* sort_values(key, ascending=False) with the default kind ('quicksort'):
\* every order of the row positions in which the keys do not increase.
\* pandas documents only 'mergesort' and 'stable' as stable, so the order
\* of rows with equal keys is whatever the build's sort produces.
RECURSIVE ArgsortDesc(_, _)
ArgsortDesc(keys, S) ==
    IF S = {} THEN {<<>>}
    ELSE LET top == {i \in S : \A j \in S : keys[i] >= keys[j]}
         IN UNION {{<<i>> \o t : t \in ArgsortDesc(keys, S \ {i})} : i \in top}

\* DataFrame.head(n)
head(df, n) == SubSeq(df, 1, Min(n, Len(df)))

----------------------------------------------------------------------------
(* Sheet lookup (lines 51-54).                                             *)

\* the lookup as it would be if it ignored letter case
FindSheetIgnoringCase(sheets, sheet_name) ==
    LET hits == {i \in 1..Len(sheets) : ContainsNoCase(sheets[i].name, sheet_name)}
    IN IF hits = {} THEN 0 ELSE CHOOSE i \in hits : \A j \in hits : i <= j

\* next((s for s in xlsx.sheet_names if sheet_name in s), None):
\* the position of the first sheet whose name contains sheet_name, 0 for None
FindSheet(sheets, sheet_name) ==
    LET hits == {i \in 1..Len(sheets) : Contains(sheets[i].name, sheet_name)}
    IN IF hits = {} THEN 0 ELSE CHOOSE i \in hits : \A j \in hits : i <= j

\* f"Missing sheet: {sheet_name}."
MissingSheetMessage(sheet_name) == <<"Missing sheet: ">> \o sheet_name \o <<".">>

----------------------------------------------------------------------------
(* 1. Model name (lines 59-61).                                            *)

\* Series.unique(): the distinct values in order of first occurrence
RECURSIVE Unique(_)
Unique(s) ==
    IF Len(s) = 0 THEN <<>>
    ELSE LET init == Unique(SubSeq(s, 1, Len(s) - 1))
             last == s[Len(s)]
         IN IF \E i \in 1..Len(init) : init[i] = last THEN init
            ELSE Append(init, last)

NotNaCell(c) == ~c.na
CellValue(c) == c.v
MapValues(s) == [i \in 1..Len(s) |-> CellValue(s[i])]

\* ht_df['Model Category'].dropna().unique()
model_guesses(ht_df) ==
    Unique(MapValues(SelectSeq(
        [i \in 1..Len(ht_df.rows) |-> ht_df.rows[i].ModelCategory], NotNaCell)))

\* the test as it would be without the strip()
IsAssignedUntrimmed(m) == Lower(m) # Unassigned

IsAssigned(m) == Lower(Strip(m)) # Unassigned

valid_models(ht_df) ==
    LET kept == SelectSeq(model_guesses(ht_df), IsAssigned)
    IN [i \in 1..Len(kept) |-> Strip(kept[i])]

TargetModel(ht_df) ==
    IF Len(valid_models(ht_df)) > 0 THEN valid_models(ht_df)[1]
    ELSE DefaultModelName

----------------------------------------------------------------------------
(* 2. Asset allocation (lines 64-72).                                      *)

RECURSIVE StripPrefixes(_, _)
StripPrefixes(class, i) ==
    IF i > Len(ClassPrefixes) THEN class
    ELSE StripPrefixes(Replace(class, ClassPrefixes[i], <<>>), i + 1)

\* lines 65-67
CleanClass(class) ==
    Strip(Replace(StripPrefixes(class, 1), <<"U", ".", "S", ".">>, <<"U", "S">>))

\* lines 64-68, one row
AllocRow(r) ==
    [Class |-> CleanClass(r.Class), Current |-> r.Current, Target |-> r.Target,
     Trade |-> r.Trade, Change |-> r.Target - r.Current]

AllocRows(mt_df) == [i \in 1..Len(mt_df.rows) |-> AllocRow(mt_df.rows[i])]

IsCashRow(r) == ContainsNoCase(r.Class, CashMarker)

\* the relabel as it would be if it were applied to every matching row
CashRelabelAll(df) ==
    [i \in 1..Len(df) |->
        IF IsCashRow(df[i]) THEN [df[i] EXCEPT !.Class = CashEquivalents] ELSE df[i]]

\* lines 71-72
CashRelabel(df) ==
    LET cash_idx == {i \in 1..Len(df) : IsCashRow(df[i])}
    IN IF cash_idx = {} THEN df
       ELSE [df EXCEPT ![CHOOSE i \in cash_idx : \A j \in cash_idx : i <= j].Class
                            = CashEquivalents]

----------------------------------------------------------------------------
(* 3. Trades (lines 75-84).                                                *)

\* astype(str) of a ticker cell
TickerText(c) == IF c.na THEN <<"n", "a", "n">> ELSE c.v

\* astype(str) of an account number: an int64, a float64 with an integral
\* value (or NaN), or text
AccountText(a) ==
    CASE a.t = "int" -> Digits(a.n)
      [] a.t = "float" -> Digits(a.n) \o <<".", "0">>
      [] a.t = "nan" -> <<"n", "a", "n">>
      [] OTHER -> a.s

\* the mask as it would be without the split at '.'
Acct4NoSplit(a) == LastChars(AccountText(a), AcctDigits)

\* line 78: .astype(str).str.split('.').str[0].str[-4:]
Acct4(a) == LastChars(SplitFirst(AccountText(a), "."), AcctDigits)

\* line 75
HasTrade(r) == ~r.Trade.na /\ r.Trade.v # 0

\* the test as it would be with case=True
IsCustodialCashCaseSensitive(r) == Contains(TickerText(r.Ticker), CustodialMarker)

\* line 76
IsCustodialCash(r) == ContainsNoCase(TickerText(r.Ticker), CustodialMarker)

\* lines 75-76
IsEligible(r) == HasTrade(r) /\ ~IsCustodialCash(r)

\* lines 80-81
TradeGL(ht_df, r) ==
    IF "Trade G/L $" \notin ht_df.cols THEN 0
    ELSE IF r.TradeGL.na THEN 0 ELSE r.TradeGL.v

\* one row of `trades`; idx is the index label the row keeps from ht_df
TradeRow(ht_df, i) ==
    LET r == ht_df.rows[i]
    IN [idx |-> i, Ticker |-> TickerText(r.Ticker), Trade |-> r.Trade.v,
        abs_trade |-> Abs(r.Trade.v), Acct4 |-> Acct4(r.AccountNumber),
        TradeGL |-> TradeGL(ht_df, r)]

RECURSIVE SelectTrades(_, _)
SelectTrades(ht_df, i) ==
    IF i > Len(ht_df.rows) THEN <<>>
    ELSE (IF IsEligible(ht_df.rows[i]) THEN <<TradeRow(ht_df, i)>> ELSE <<>>)
         \o SelectTrades(ht_df, i + 1)

IsBuy(r) == r.Trade > 0
IsSell(r) == r.Trade < 0

\* the sort keys as they would be if 'Trade $' were sorted on
SignedKeys(df) == [i \in 1..Len(df) |-> df[i].Trade]

\* the values of the sort column 'abs_trade'
AbsKeys(df) == [i \in 1..Len(df) |-> df[i].abs_trade]

\* trades[mask].sort_values('abs_trade', ascending=False).head(5): the
\* possible results
TopTrades(df) ==
    {head([i \in 1..Len(df) |-> df[p[i]]], TopN) :
        p \in ArgsortDesc(AbsKeys(df), 1..Len(df))}

----------------------------------------------------------------------------
(* 4. Financials (line 87).                                                *)

RECURSIVE SumValues(_)
SumValues(rows) ==
    IF Len(rows) = 0 THEN 0 ELSE rows[1].AccountValue + SumValues(Tail(rows))

----------------------------------------------------------------------------
(* 6. The pages (lines 99-192).                                            *)

\* a / b rounded to the nearest integer, b # 0
RoundDiv(a, b) ==
    LET n == IF b < 0 THEN -a ELSE a
        d == Abs(b)
    IN IF n >= 0 THEN (2 * n + d) \div (2 * d) ELSE -((2 * (-n) + d) \div (2 * d))

\* f"{x:.2f}" read back by float(): thousandths rounded to hundredths
\* (the inputs checked have no thousandths digit 5)
Round2(x) == RoundDiv(x, 10)

\* (cg['Estimated Tax'] / total_val) * 100 as line 122 formats it.  numpy
\* scalars (numeric columns) give inf or nan on a zero divisor; two Python
\* numbers (object columns) raise ZeroDivisionError.
TaxImpact(tax, total, native) ==
    IF total # 0 THEN [kind |-> "number", v |-> RoundDiv(tax * 10000, total)]
    ELSE IF native THEN [kind |-> "ZeroDivisionError", v |-> 0]
    ELSE IF tax = 0 THEN [kind |-> "nan", v |-> 0]
    ELSE IF tax > 0 THEN [kind |-> "inf", v |-> 0]
    ELSE [kind |-> "-inf", v |-> 0]

\* line 144
AllocCellColor(val) ==
    IF val # 0 THEN (IF val > 0 THEN GREEN ELSE RED) ELSE DefaultColor

\* lines 130, 141-144: the cells of one allocation row
AllocCells(r) ==
    [Class |-> r.Class,
     change |-> Round2(r.Change), change_color |-> AllocCellColor(Round2(r.Change)),
     trade |-> Round2(r.Trade), trade_color |-> AllocCellColor(Round2(r.Trade))]

\* line 189
SellCellColor(gl_val) == IF gl_val > 0 THEN GREEN ELSE RED

\* lines 174-176, 185-189
BuyCells(r) ==
    [mask |-> <<"Ending in ">> \o r.Acct4, Ticker |-> r.Ticker,
     amount |-> Abs(r.Trade), gl |-> 0, amount_color |-> DefaultColor]

SellCells(r) ==
    [mask |-> <<"Ending in ">> \o r.Acct4, Ticker |-> r.Ticker,
     amount |-> Abs(r.Trade), gl |-> r.TradeGL,
     amount_color |-> SellCellColor(r.TradeGL)]

\* lines 171-190: a table, or the "No identified trades" text
TradeTable(data, title) ==
    IF Len(data) = 0 THEN [placeholder |-> TRUE, rows |-> <<>>]
    ELSE [placeholder |-> FALSE,
          rows |-> [i \in 1..Len(data) |->
                       IF title = "TOP 5 BUYS" THEN BuyCells(data[i])
                       ELSE SellCells(data[i])]]

NoDoc ==
    [logo |-> FALSE, target_model |-> <<>>, tax_impact |-> [kind |-> "nan", v |-> 0],
     allocation |-> <<>>, buys |-> [placeholder |-> TRUE, rows |-> <<>>],
     sells |-> [placeholder |-> TRUE, rows |-> <<>>]]

----------------------------------------------------------------------------
(* The inputs checked: workbooks, logos and what the environment does.     *)

MTCols == {"Class", "Current %", "Target %", "Trade $"}
HTCols == {"Model Category", "Ticker", "Security Name", "Account Number",
           "Trade $", "Trade G/L $"}
GLCols == {"Trade Short Term Gain", "Trade Long Term Gain", "Trade Total Gain $",
           "Estimated Tax", "Post-Trade YTD Gain"}
ACCols == {"Account Value"}

MTRow(class, current, target, trade) ==
    [Class |-> class, Current |-> current, Target |-> target, Trade |-> trade]

HTRow(category, ticker, account, trade, gl) ==
    [ModelCategory |-> category, Ticker |-> ticker, AccountNumber |-> account,
     Trade |-> trade, TradeGL |-> gl]

IntAcct(n) == [t |-> "int", n |-> n, s |-> <<>>]
FloatAcct(n) == [t |-> "float", n |-> n, s |-> <<>>]
TextAcct(s) == [t |-> "str", n |-> 0, s |-> s]
NaNAcct == [t |-> "nan", n |-> 0, s |-> <<>>]

Growth == Cell(<<"G", "r", "o", "w", "t", "h">>)

\* the rows the allocation tables are built from
AllocRowKinds ==
    { MTRow(<<"S", "a", "v", "v", "y", " ", "U", "S", " ", "E", "q", "u", "i", "t", "y", " ", "-", " ", "U", ".", "S", ".", " ", "L", "a", "r", "g", "e", " ", "C", "a", "p", " ">>, 34996, 35000, 4),
      MTRow(<<"C", "a", "s", "h">>, 0, 10000, 10000000),
      MTRow(<<"S", "T", "P", " ", "-", " ", "M", "o", "d", "e", "r", "a", "t", "e", " ", "A", "g", "g", "r", "e", "s", "s", "i", "v", "e", " ", "-", " ", "c", "a", "s", "h", " ", "s", "w", "e", "e", "p">>, 10004, 10000, -4),
      MTRow(<<"B", "o", "n", "d", "s">>, 10000, 10000, 0),
      MTRow(<<"S", "a", "v", "v", "y", " ", "T", "o", "t", "a", "l", " ", "P", "o", "r", "t", "f", "o", "l", "i", "o", "s", " ", "-", " ", "C", "A", "S", "H", " ", "R", "e", "s", "e", "r", "v", "e">>, 14000, 0, -14000000),
      MTRow(<<"I", "n", "t", "l", " ", "E", "q", "u", "i", "t", "y">>, 0, 35000, 35000000) }

\* the rows the holdings tables are built from
TradeRowKinds ==
    { HTRow(Growth, Cell(<<"A", "A", "P", "L">>), TextAcct(<<"A", "1", ".", "B", "2", "3", "4", "5">>), Cell(500), NaNum),
      HTRow(Growth, Cell(<<"C", "u", "s", "t", "o", "d", "i", "a", "l", "_", "C", "a", "s", "h">>), IntAcct(12345678), Cell(500), NaNum),
      HTRow(Growth, Cell(<<"M", "S", "F", "T">>), IntAcct(123), Cell(-300), Cell(0)),
      HTRow(Growth, Cell(<<"V", "T", "I">>), FloatAcct(12), Cell(0), Cell(0)),
      HTRow(Growth, Cell(<<"B", "N", "D">>), TextAcct(<<"Z", "-", "5", "5", "0", "1", "-", "8", "8">>), NaNum, NaNum),
      HTRow(Growth, NaText, NaNAcct, Cell(200), Cell(15)),
      HTRow(Growth, Cell(<<"I", "B", "M">>), FloatAcct(98765), Cell(-500), Cell(-40)) }

\* five buys and five sells, unsorted
TradeBlock ==
    << HTRow(Growth, Cell(<<"B", "1">>), IntAcct(10000001), Cell(600), NaNum),
       HTRow(Growth, Cell(<<"S", "1">>), IntAcct(10000002), Cell(-300), Cell(10)),
       HTRow(Growth, Cell(<<"B", "2">>), IntAcct(10000003), Cell(900), NaNum),
       HTRow(Growth, Cell(<<"S", "2">>), IntAcct(10000004), Cell(-800), Cell(-10)),
       HTRow(Growth, Cell(<<"B", "3">>), IntAcct(10000005), Cell(500), NaNum),
       HTRow(Growth, Cell(<<"S", "3">>), IntAcct(10000006), Cell(-900), Cell(0)),
       HTRow(Growth, Cell(<<"B", "4">>), IntAcct(10000007), Cell(700), NaNum),
       HTRow(Growth, Cell(<<"S", "4">>), IntAcct(10000008), Cell(-600), NaNum),
       HTRow(Growth, Cell(<<"B", "5">>), IntAcct(10000009), Cell(800), NaNum),
       HTRow(Growth, Cell(<<"S", "5">>), IntAcct(10000010), Cell(-700), Cell(5)) >>

CategoryKinds ==
    { NaText, Cell(<<"U", "n", "a", "s", "s", "i", "g", "n", "e", "d">>), Cell(<<" ", "u", "n", "a", "s", "s", "i", "g", "n", "e", "d", " ">>),
      Cell(<<" ", "G", "r", "o", "w", "t", "h", " ">>), Cell(<<"I", "n", "c", "o", "m", "e">>), Cell(<<" ", " ">>) }

\* a holding that is not traded
CategoryRow(c) == HTRow(c, Cell(<<"A", "A", "P", "L">>), IntAcct(12345678), NaNum, NaNum)

TaxValues == {-50, 0, 100}
AccountValues == {-500, 0, 500}

\* all sequences over S of length at most n
SeqsUpTo(S, n) == UNION {[1..m -> S] : m \in 0..n}

Table(cols, rows) == [cols |-> cols, rows |-> rows]

CanonMT ==
    Table(MTCols,
          << MTRow(<<"S", "a", "v", "v", "y", " ", "T", "o", "t", "a", "l", " ", "P", "o", "r", "t", "f", "o", "l", "i", "o", "s", " ", "-", " ", "U", "S", " ", "E", "q", "u", "i", "t", "y">>, 40000, 35000, -5000000),
             MTRow(<<"S", "a", "v", "v", "y", " ", "T", "o", "t", "a", "l", " ", "P", "o", "r", "t", "f", "o", "l", "i", "o", "s", " ", "-", " ", "C", "a", "s", "h">>, 5000, 10000, 5000000) >>)

CanonHT ==
    Table(HTCols,
          << HTRow(Growth, Cell(<<"A", "A", "P", "L">>), IntAcct(12345678), Cell(500), NaNum),
             HTRow(Growth, Cell(<<"I", "B", "M">>), FloatAcct(98765), Cell(-500), Cell(-40)) >>)

GLRow(tax) == [EstimatedTax |-> tax, TotalGain |-> 400]
ACRow(v) == [AccountValue |-> v]

CanonGL == Table(GLCols, <<GLRow(100)>>)
CanonAC == Table(ACCols, <<ACRow(500), ACRow(500)>>)

CanonTables == <<CanonMT, CanonHT, CanonGL, CanonAC>>

NameVariants == {"exact", "decorated", "lowercase", "absent"}

\* how an export may name a sheet
SheetName(base, variant) ==
    CASE variant = "exact" -> base
      [] variant = "decorated" -> <<"Q", "3", " ">> \o base \o <<" ", "(", "2", ")">>
      [] OTHER -> Lower(base)

IsPresent(s) == s.present
PlainSheet(s) == [name |-> s.name, data |-> s.data]

Decoy == [name |-> <<"S", "h", "e", "e", "t", "1">>, data |-> Table({}, <<>>)]

\* a workbook: a decoy sheet, then the required sheets named as `variants` says
Sheets(variants, tables) ==
    LET all == [i \in 1..Len(required_sheets) |->
                    [name |-> SheetName(required_sheets[i].sheet_name, variants[i]),
                     data |-> tables[i], present |-> variants[i] # "absent"]]
        kept == SelectSeq(all, IsPresent)
    IN <<Decoy>> \o [i \in 1..Len(kept) |-> PlainSheet(kept[i])]

AllExact == [i \in 1..Len(required_sheets) |-> "exact"]

Workbook(sheets) == [readable |-> TRUE, error |-> Exc("", <<>>), sheets |-> sheets]

\* what pd.ExcelFile raises on a file that is no workbook
Unreadable ==
    [readable |-> FALSE,
     error |-> Exc("ValueError", <<"Excel file format cannot be determined">>),
     sheets |-> <<>>]

NoFault == [none |-> TRUE, v |-> Exc("", <<>>)]

\* exceptions the drawing library may raise: one constructed without a
\* message (as the interpreter's MemoryError is), one with a message
LibFaults ==
    { Some(Exc("MemoryError", <<>>)),
      Some(Exc("RuntimeError", <<"Can not put single artist in more than one figure">>)) }

Call(excel_file, uploaded_logo, default_logo, native, lib_fault) ==
    [excel_file |-> excel_file, uploaded_logo |-> uploaded_logo,
     default_logo |-> default_logo, native |-> native, lib_fault |-> lib_fault]

\* a call on a readable workbook, with the default logo, numeric columns and
\* no library failure
PlainCall(sheets) == Call(Workbook(sheets), "none", "ok", FALSE, NoFault)

WithTable(i, table) == [CanonTables EXCEPT ![i] = table]

OldGainLoss == [name |-> <<"O", "l", "d", " ", "G", "a", "i", "n", " ", "L", "o", "s", "s", " ", "D", "e", "t", "a", "i", "l", "s">>, data |-> Table(GLCols, <<>>)]

\* workbooks whose sheets are named in every way, and workbooks in which
\* two sheets match "Gain Loss Details" (the first one wins)
SheetInputs(call) ==
    \/ \E v \in [1..Len(required_sheets) -> NameVariants] :
          call = PlainCall(Sheets(v, CanonTables))
    \/ call = PlainCall(Sheets(AllExact, CanonTables) \o <<OldGainLoss>>)
    \/ call = PlainCall(<<OldGainLoss>> \o Sheets(AllExact, CanonTables))

AllocInputs(call) ==
    \E rows \in SeqsUpTo(AllocRowKinds, MaxAllocRows) \ {<<>>} :
        call = PlainCall(Sheets(AllExact, WithTable(1, Table(MTCols, rows))))

TradeInputs(call) ==
    \/ \E rows \in SeqsUpTo(TradeRowKinds, MaxTradeRows), block \in {<<>>, TradeBlock} :
          call = PlainCall(Sheets(AllExact, WithTable(2, Table(HTCols, block \o rows))))
    \/ \E rows \in SeqsUpTo(TradeRowKinds, MaxTradeRows - 1) :
          call = PlainCall(Sheets(AllExact,
                     WithTable(2, Table(HTCols \ {"Trade G/L $"}, rows))))

ModelInputs(call) ==
    \E cats \in SeqsUpTo(CategoryKinds, MaxModelRows) :
        call = PlainCall(Sheets(AllExact,
                   WithTable(2, Table(HTCols,
                       [i \in 1..Len(cats) |-> CategoryRow(cats[i])]))))

FinInputs(call) ==
    \E tax \in TaxValues, vals \in SeqsUpTo(AccountValues, MaxAcctRows),
       native \in BOOLEAN :
        call = Call(Workbook(Sheets(AllExact,
                        [CanonTables EXCEPT
                            ![3] = Table(GLCols, <<GLRow(tax)>>),
                            ![4] = Table(ACCols,
                                      [i \in 1..Len(vals) |-> ACRow(vals[i])])])),
                    "none", "ok", native, NoFault)

\* a column missing from a sheet, an empty gain/loss sheet
SchemaInputs(call) ==
    \/ \E c \in MTCols :
          call = PlainCall(Sheets(AllExact,
                     WithTable(1, Table(MTCols \ {c}, CanonMT.rows))))
    \/ \E c \in HTCols :
          call = PlainCall(Sheets(AllExact,
                     WithTable(2, Table(HTCols \ {c}, CanonHT.rows))))
    \/ \E c \in GLCols :
          call = PlainCall(Sheets(AllExact,
                     WithTable(3, Table(GLCols \ {c}, CanonGL.rows))))
    \/ call = PlainCall(Sheets(AllExact, WithTable(4, Table({}, CanonAC.rows))))
    \/ call = PlainCall(Sheets(AllExact, WithTable(3, Table(GLCols, <<>>))))

\* logos and failures of the libraries
EnvironmentInputs(call) ==
    \/ \E up \in {"none", "ok", "bad"}, def \in {"absent", "ok", "bad"},
          fault \in {NoFault} \cup LibFaults :
          call = Call(Workbook(Sheets(AllExact, CanonTables)), up, def, FALSE, fault)
    \/ call = Call(Unreadable, "none", "ok", FALSE, NoFault)

\* the calls checked
Inputs(call) ==
    \/ SheetInputs(call)
    \/ AllocInputs(call)
    \/ TradeInputs(call)
    \/ ModelInputs(call)
    \/ FinInputs(call)
    \/ SchemaInputs(call)
    \/ EnvironmentInputs(call)

----------------------------------------------------------------------------
(* The call.                                                               *)

Init ==
    /\ pc = "open"
    /\ Inputs(input)
    /\ xlsx = <<>>
    /\ k = 1
    /\ dfs = <<>>
    /\ target_model = <<>>
    /\ aa = <<>>
    /\ trades = <<>>
    /\ buys = <<>>
    /\ sells = <<>>
    /\ cg = GLRow(0)
    /\ total_val = 0
    /\ logo_img = FALSE
    /\ doc = NoDoc
    /\ result = [doc |-> None, err |-> None]

mt_df == dfs["Model Tolerance"]
ht_df == dfs["Holding and Trade Details"]
gl_df == dfs["Gain Loss Details"]
ac_df == dfs["Account and Cash Details"]

KeyError(name) == Some(Exc("KeyError", <<name>>))
NoError == [none |-> TRUE, v |-> Exc("", <<>>)]

KeyErrorIfMissing(df, names) ==
    IF FirstMissing(df, names) = "" THEN NoError
    ELSE KeyError(FirstMissing(df, names))

\* what the statements of lines 99-192 raise, in the order they run
RenderError ==
    IF ~input.lib_fault.none THEN input.lib_fault
    ELSE IF FirstMissing(gl_df, <<"Trade Total Gain $", "Estimated Tax">>) # ""
    THEN KeyErrorIfMissing(gl_df, <<"Trade Total Gain $", "Estimated Tax">>)
    ELSE IF TaxImpact(cg.EstimatedTax, total_val, input.native).kind
                = "ZeroDivisionError"
    THEN Some(Exc("ZeroDivisionError", <<"division by zero">>))
    ELSE IF FirstMissing(gl_df, <<"Trade Short Term Gain", "Trade Long Term Gain",
                                  "Post-Trade YTD Gain">>) # ""
    THEN KeyErrorIfMissing(gl_df, <<"Trade Short Term Gain", "Trade Long Term Gain",
                                    "Post-Trade YTD Gain">>)
    ELSE IF Len(buys) + Len(sells) > 0
    THEN KeyErrorIfMissing(ht_df, <<"Security Name">>)
    ELSE NoError

\* the exception the statement at pc raises, if it raises one
StageError ==
    CASE pc = "open" ->
            IF input.excel_file.readable THEN NoError
            ELSE Some(input.excel_file.error)
      [] pc = "model" -> KeyErrorIfMissing(ht_df, <<"Model Category">>)
      [] pc = "alloc" ->
            KeyErrorIfMissing(mt_df, <<"Class", "Current %", "Target %", "Trade $">>)
      [] pc = "trades" ->
            KeyErrorIfMissing(ht_df, <<"Trade $", "Ticker", "Account Number">>)
      [] pc = "fin" ->
            IF Len(gl_df.rows) = 0
            THEN Some(Exc("IndexError", <<"single positional indexer is out-of-bounds">>))
            ELSE KeyErrorIfMissing(ac_df, <<"Account Value">>)
      [] pc = "render" -> RenderError
      [] OTHER -> NoError

\* line 42
OpenWorkbook ==
    /\ pc = "open"
    /\ StageError.none
    /\ xlsx' = input.excel_file.sheets
    /\ pc' = "locate"
    /\ UNCHANGED <<input, k, dfs, target_model, aa, trades, buys, sells, cg,
                   total_val, logo_img, doc, result>>

\* lines 51-53, one turn of the loop on a sheet that is found
SheetFound ==
    /\ pc = "locate"
    /\ FindSheet(xlsx, required_sheets[k].sheet_name) # 0
    /\ dfs' = dfs @@ (required_sheets[k].key :>
                        xlsx[FindSheet(xlsx, required_sheets[k].sheet_name)].data)
    /\ k' = k + 1
    /\ pc' = IF k = Len(required_sheets) THEN "model" ELSE "locate"
    /\ UNCHANGED <<input, xlsx, target_model, aa, trades, buys, sells, cg,
                   total_val, logo_img, doc, result>>

\* line 54
SheetMissing ==
    /\ pc = "locate"
    /\ FindSheet(xlsx, required_sheets[k].sheet_name) = 0
    /\ result' = [doc |-> None,
                  err |-> Some(MissingSheetMessage(required_sheets[k].sheet_name))]
    /\ pc' = "done"
    /\ UNCHANGED <<input, xlsx, k, dfs, target_model, aa, trades, buys, sells,
                   cg, total_val, logo_img, doc>>

\* lines 59-61
ModelName ==
    /\ pc = "model"
    /\ StageError.none
    /\ target_model' = TargetModel(ht_df)
    /\ pc' = "alloc"
    /\ UNCHANGED <<input, xlsx, k, dfs, aa, trades, buys, sells, cg, total_val,
                   logo_img, doc, result>>

\* lines 64-69
AssetAllocation ==
    /\ pc = "alloc"
    /\ StageError.none
    /\ LET rows == AllocRows(mt_df)
       IN \E p \in ArgsortDesc([i \in 1..Len(rows) |-> rows[i].Target], 1..Len(rows)) :
              aa' = [i \in 1..Len(rows) |-> rows[p[i]]]
    /\ pc' = "cash"
    /\ UNCHANGED <<input, xlsx, k, dfs, target_model, trades, buys, sells, cg,
                   total_val, logo_img, doc, result>>

\* lines 71-72
CashEquivalentsLabel ==
    /\ pc = "cash"
    /\ aa' = CashRelabel(aa)
    /\ pc' = "trades"
    /\ UNCHANGED <<input, xlsx, k, dfs, target_model, trades, buys, sells, cg,
                   total_val, logo_img, doc, result>>

\* lines 75-84
Trades ==
    /\ pc = "trades"
    /\ StageError.none
    /\ trades' = SelectTrades(ht_df, 1)
    /\ buys' \in TopTrades(SelectSeq(SelectTrades(ht_df, 1), IsBuy))
    /\ sells' \in TopTrades(SelectSeq(SelectTrades(ht_df, 1), IsSell))
    /\ pc' = "fin"
    /\ UNCHANGED <<input, xlsx, k, dfs, target_model, aa, cg, total_val,
                   logo_img, doc, result>>

\* line 87
Financials ==
    /\ pc = "fin"
    /\ StageError.none
    /\ cg' = gl_df.rows[1]
    /\ total_val' = SumValues(ac_df.rows)
    /\ pc' = "logo"
    /\ UNCHANGED <<input, xlsx, k, dfs, target_model, aa, trades, buys, sells,
                   logo_img, doc, result>>

\* lines 90-96: an image that cannot be opened leaves logo_img None
DetermineLogo ==
    /\ pc = "logo"
    /\ logo_img' = IF input.uploaded_logo # "none" THEN input.uploaded_logo = "ok"
                   ELSE input.default_logo = "ok"
    /\ pc' = "render"
    /\ UNCHANGED <<input, xlsx, k, dfs, target_model, aa, trades, buys, sells,
                   cg, total_val, doc, result>>

\* lines 99-192
GeneratePDF ==
    /\ pc = "render"
    /\ StageError.none
    /\ doc' = [logo |-> logo_img,
               target_model |-> target_model,
               tax_impact |-> TaxImpact(cg.EstimatedTax, total_val, input.native),
               allocation |-> [i \in 1..Len(aa) |-> AllocCells(aa[i])],
               buys |-> TradeTable(buys, "TOP 5 BUYS"),
               sells |-> TradeTable(sells, "TOP 5 SELLS")]
    /\ pc' = "return"
    /\ UNCHANGED <<input, xlsx, k, dfs, target_model, aa, trades, buys, sells,
                   cg, total_val, logo_img, result>>

\* lines 194-195
ReturnBuffer ==
    /\ pc = "return"
    /\ result' = [doc |-> Some(doc), err |-> None]
    /\ pc' = "done"
    /\ UNCHANGED <<input, xlsx, k, dfs, target_model, aa, trades, buys, sells,
                   cg, total_val, logo_img, doc>>

\* line 196: except Exception as e: return None, str(e)
ExceptReturn ==
    /\ pc \in {"open", "model", "alloc", "trades", "fin", "render"}
    /\ ~StageError.none
    /\ result' = [doc |-> None, err |-> Some(StrOfException(StageError.v))]
    /\ pc' = "done"
    /\ UNCHANGED <<input, xlsx, k, dfs, target_model, aa, trades, buys, sells,
                   cg, total_val, logo_img, doc>>

Next ==
    \/ OpenWorkbook
    \/ SheetFound
    \/ SheetMissing
    \/ ModelName
    \/ AssetAllocation
    \/ CashEquivalentsLabel
    \/ Trades
    \/ Financials
    \/ DetermineLogo
    \/ GeneratePDF
    \/ ReturnBuffer
    \/ ExceptReturn

Spec == Init /\ [][Next]_vars

----------------------------------------------------------------------------
(* Properties.                                                             *)

\* positions after the trades were selected, up to the return
PastTrades == {"fin", "logo", "render", "return"}

MinOf(S) == CHOOSE i \in S : \A j \in S : i <= j

\* C1: every returned pair has exactly one side populated: the document is
\* present and the error is None or empty, or the document is None and the
\* error is a non-empty message.
C1_ExactlyOneSide ==
    pc = "done" =>
        \/ ~result.doc.none /\ ~Truthy(result.err)
        \/ result.doc.none /\ Truthy(result.err)

\* the required sheets no sheet name of the opened workbook contains
MissingSheets ==
    {i \in 1..Len(required_sheets) :
        \A j \in 1..Len(input.excel_file.sheets) :
            ~Contains(input.excel_file.sheets[j].name, required_sheets[i].sheet_name)}

\* C2: when a required sheet has no sheet name containing its substring
\* (case-sensitive), the call never gets past the sheet lookup, no later
\* step has produced anything, and it returns no document and the error
\* "Missing sheet: <name>." of the first such sheet.
C2_MissingSheetStops ==
    (input.excel_file.readable /\ MissingSheets # {}) =>
        /\ pc \in {"open", "locate", "done"}
        /\ target_model = <<>> /\ aa = <<>> /\ trades = <<>>
        /\ buys = <<>> /\ sells = <<>> /\ doc = NoDoc
        /\ pc = "done" =>
              /\ result.doc.none
              /\ ~result.err.none
              /\ result.err.v = <<"Missing sheet: ">>
                    \o required_sheets[MinOf(MissingSheets)].sheet_name \o <<".">>
              /\ DOMAIN dfs = {required_sheets[i].key : i \in 1..(MinOf(MissingSheets) - 1)}

\* the call returned "Missing sheet" for the last required sheet after the
\* three before it were located, one of them under a decorated name
C2_Witness ==
    /\ pc = "done"
    /\ MissingSheets = {Len(required_sheets)}
    /\ Cardinality(DOMAIN dfs) = Len(required_sheets) - 1
    /\ \E j \in 1..Len(xlsx) : xlsx[j].name = Lower(AccountAndCashDetails)
    /\ \E j \in 1..Len(xlsx) : xlsx[j].name = SheetName(ModelTolerance, "decorated")
    /\ result.doc.none /\ Truthy(result.err)

\* the row of the holdings table a selected trade comes from
SourceRow(r) == ht_df.rows[r.idx]

Listed == {buys[i] : i \in 1..Len(buys)} \cup {sells[i] : i \in 1..Len(sells)}

\* C3: no row of Buys or Sells has a ticker containing "CUSTODIAL_CASH" in
\* any letter case, nor a trade amount that is null or zero.
C3_NoCustodialNoZero ==
    pc \in PastTrades =>
        \A r \in Listed :
            /\ ~Contains(Lower(TickerText(SourceRow(r).Ticker)), Lower(CustodialMarker))
            /\ ~SourceRow(r).Trade.na
            /\ SourceRow(r).Trade.v # 0
            /\ r.Trade = SourceRow(r).Trade.v

C3_Witness ==
    /\ pc \in PastTrades
    /\ Len(buys) > 0 /\ Len(sells) > 0
    /\ \E i \in 1..Len(ht_df.rows) :
          /\ ht_df.rows[i].Ticker = Cell(<<"C", "u", "s", "t", "o", "d", "i", "a", "l", "_", "C", "a", "s", "h">>)
          /\ ht_df.rows[i].Trade = Cell(500)
    /\ \E i \in 1..Len(ht_df.rows) : ht_df.rows[i].Trade = Cell(0)
    /\ \E i \in 1..Len(ht_df.rows) : ht_df.rows[i].Trade.na

\* the positions of the holdings rows eligible for ranking, by sign
EligiblePositions(sign) ==
    {i \in 1..Len(ht_df.rows) :
        /\ ~ht_df.rows[i].Trade.na
        /\ ht_df.rows[i].Trade.v * sign > 0
        /\ ~Contains(Lower(TickerText(ht_df.rows[i].Ticker)), Lower(CustodialMarker))}

RankedTopFive(list, sign) ==
    LET from == EligiblePositions(sign)
        in == {list[i].idx : i \in 1..Len(list)}
    IN /\ Len(list) = Min(5, Cardinality(from))
       /\ in \subseteq from
       /\ Cardinality(in) = Len(list)
       /\ \A i \in 1..Len(list) :
             /\ list[i].Trade = ht_df.rows[list[i].idx].Trade.v
             /\ list[i].Trade * sign > 0
       /\ \A i \in 1..(Len(list) - 1) : Abs(list[i].Trade) >= Abs(list[i + 1].Trade)
       /\ \A o \in from \ in : \A i \in 1..Len(list) :
             Abs(ht_df.rows[o].Trade.v) <= Abs(list[i].Trade)

\* C4: Buys is the first 5 (or all, if fewer) of the eligible rows with a
\* positive amount ordered by absolute amount descending, Sells the same for
\* the negative amounts: at most 5 rows each, of the right sign, not
\* increasing in absolute value, and no eligible row left out is larger in
\* absolute value than a row of its sign that is listed.
C4_TopFiveBySign ==
    pc \in PastTrades => RankedTopFive(buys, 1) /\ RankedTopFive(sells, -1)

C4_Witness ==
    /\ pc \in PastTrades
    /\ Cardinality(EligiblePositions(1)) > 5 /\ Len(buys) = 5
    /\ Cardinality(EligiblePositions(-1)) > 5 /\ Len(sells) = 5
    /\ buys[5].Trade = 500
    /\ sells[5].Trade = -500

\* C5: the allocation rows come out sorted by target_pct descending, rows of
\* equal target_pct in their order in the input table, and are a
\* permutation of the (cleaned) input rows.
C5_StableSort ==
    pc = "cash" =>
        /\ Len(aa) = Len(mt_df.rows)
        /\ \A i \in 1..(Len(aa) - 1) : aa[i].Target >= aa[i + 1].Target
        /\ \A t \in {aa[i].Target : i \in 1..Len(aa)} :
              LET HasTarget(r) == r.Target = t
              IN SelectSeq(aa, HasTarget) = SelectSeq(AllocRows(mt_df), HasTarget)

\* C6: the cash relabel changes at most one row: the first row of the sorted
\* table whose label contains "Cash" in any letter case becomes "Cash
\* Equivalents", every other row and every other field stays as it is, no
\* row changes when no label contains "Cash", and the row count stays that
\* of the input table.
C6_OneCashRelabel ==
    [][pc = "cash" =>
          LET cash == {i \in 1..Len(aa) : Contains(Lower(aa[i].Class), Lower(CashMarker))}
          IN /\ Len(aa') = Len(aa)
             /\ Len(aa') = Len(mt_df.rows)
             /\ Cardinality({i \in 1..Len(aa) : aa'[i] # aa[i]}) <= 1
             /\ \A i \in 1..Len(aa) :
                   aa'[i] = IF cash # {} /\ i = MinOf(cash)
                            THEN [aa[i] EXCEPT !.Class = CashEquivalents]
                            ELSE aa[i]]_vars

C6_Witness ==
    /\ pc = "trades"
    /\ \E i, j \in 1..Len(aa) :
          /\ i < j
          /\ aa[i].Class = CashEquivalents
          /\ aa[i].Target = aa[j].Target
          /\ aa[j].Class = <<"c", "a", "s", "h", " ", "s", "w", "e", "e", "p">>

\* C7: with total_value zero and estimated_tax non-zero the call returns an
\* error and no document.
C7_ZeroTotalFails ==
    (pc = "done" /\ total_val = 0 /\ cg.EstimatedTax # 0) =>
        result.doc.none /\ ~result.err.none

\* the text of an account number up to its first '.'
AccountStem(r) == SplitFirst(AccountText(SourceRow(r).AccountNumber), ".")

\* C8 as stated: account_last4 of every eligible trade row has exactly 4
\* characters.
C8_AlwaysFourChars ==
    pc \in PastTrades => \A i \in 1..Len(trades) : Len(trades[i].Acct4) = 4

\* C8, amended: account_last4 is the last 4 characters of the account text
\* before its first '.', so it has exactly 4 characters when that text has
\* at least 4 and is the whole text when it has fewer.
C8_AtMostFourChars ==
    pc \in PastTrades =>
        \A i \in 1..Len(trades) :
            LET stem == AccountStem(trades[i])
                last4 == trades[i].Acct4
            IN /\ Len(last4) = Min(4, Len(stem))
               /\ \A j \in 1..Len(last4) : last4[j] = stem[Len(stem) - Len(last4) + j]

C8_Witness ==
    /\ pc \in PastTrades
    /\ \E i \in 1..Len(trades) :
          /\ SourceRow(trades[i]).AccountNumber = IntAcct(123)
          /\ trades[i].Acct4 = <<"1", "2", "3">>
    /\ \E i \in 1..Len(trades) :
          /\ SourceRow(trades[i]).AccountNumber = FloatAcct(98765)
          /\ trades[i].Acct4 = <<"8", "7", "6", "5">>

SignColor(v) == IF v > 0 THEN GREEN ELSE IF v < 0 THEN RED ELSE DefaultColor

\* C9: every cell showing a signed change or a gain/loss has the colour of
\* its sign, and the default colour when its value is zero: the Change % and
\* Trade Amount cells of the allocation table, and the amount cell of the
\* Sells table, coloured by the row's realized gain.
C9_ColoredBySign ==
    pc = "return" =>
        /\ \A i \in 1..Len(doc.allocation) :
              /\ doc.allocation[i].change_color = SignColor(doc.allocation[i].change)
              /\ doc.allocation[i].trade_color = SignColor(doc.allocation[i].trade)
        /\ \A i \in 1..Len(doc.sells.rows) :
              doc.sells.rows[i].amount_color = SignColor(sells[i].TradeGL)

\* the rows of the holdings table whose category is a model name
NamedModels ==
    {i \in 1..Len(ht_df.rows) :
        /\ ~ht_df.rows[i].ModelCategory.na
        /\ Lower(Strip(ht_df.rows[i].ModelCategory.v)) # <<"u", "n", "a", "s", "s", "i", "g", "n", "e", "d">>}

\* C10: when the trade table has its category column, identifying the model
\* does not fail, and the target model is the (trimmed) first non-null
\* category that is not "unassigned" after trimming and lowercasing, or the
\* default name when there is none.
C10_ModelNameNeverFails ==
    [][(pc = "model" /\ "Model Category" \in ht_df.cols) =>
          /\ pc' = "alloc"
          /\ result' = result
          /\ target_model' =
                IF NamedModels = {} THEN <<"S", "a", "v", "v", "y", " ", "S", "t", "r", "a", "t", "e", "g", "i", "c", " ", "M", "o", "d", "e", "l">>
                ELSE Strip(ht_df.rows[MinOf(NamedModels)].ModelCategory.v)]_vars

C10_Witness ==
    /\ pc = "alloc"
    /\ Len(ht_df.rows) = 3
    /\ ht_df.rows[1].ModelCategory.na
    /\ ht_df.rows[2].ModelCategory = Cell(<<" ", "u", "n", "a", "s", "s", "i", "g", "n", "e", "d", " ">>)
    /\ ht_df.rows[3].ModelCategory = Cell(<<" ", "G", "r", "o", "w", "t", "h", " ">>)
    /\ target_model = <<"G", "r", "o", "w", "t", "h">>

====
